---- MODULE Spec2Model ----
(***************************************************************************)
(* Model of astrobase/periodbase/spdm.py: the Stellingwerf phase           *)
(* dispersion minimisation period search (stellingwerf_pdm), its per       *)
(* frequency evaluator (stellingwerf_pdm_theta) and its pool worker        *)
(* (stellingwerf_pdm_worker).                                              *)
(*                                                                         *)
(* Floating point values are modelled as exact rationals [n, d] with the   *)
(* two non-finite values NaN = 0/0 and Inf = +-1/0; numpy arrays are       *)
(* sequences.  An argument of stellingwerf_pdm is drawn from its small set *)
(* by the step of the function that first reads it.                        *)
(***************************************************************************)
EXTENDS Integers, Sequences, FiniteSets, TLC

(***************************************************************************)
(* Bounds of the model.                                                    *)
(***************************************************************************)
\* longest raw light curve handed to the search
MaxSamples == 11
\* most non-finite samples in a raw light curve
MaxBad == 2
\* longest frequency grid that is searched
MaxGrid == 4
\* most tasks whose evaluation raises for a reason outside the model
MaxFaults == 1
\* cpu_count() of the machine
NCPUS == 2
\* most invocations of stellingwerf_pdm in one process
MaxCalls == 2

(***************************************************************************)
(* Floats as rationals.                                                    *)
(***************************************************************************)
Abs(x) == IF x < 0 THEN -x ELSE x

Sign(x) == IF x < 0 THEN -1 ELSE IF x > 0 THEN 1 ELSE 0

RECURSIVE GCD(_, _)
GCD(a, b) == IF b = 0 THEN a ELSE GCD(b, a % b)

\* the float n/d, in lowest terms with a positive denominator
Rat(n, d) ==
    IF d = 0 THEN [n |-> Sign(n), d |-> 0]
    ELSE LET g == GCD(Abs(n), Abs(d))
         IN  [n |-> Sign(d) * (n \div g), d |-> Abs(d) \div g]

NaN == [n |-> 0, d |-> 0]

\* Python's None, a value outside the floats
None == [n |-> 0, d |-> -1]

IsFinite(x) == x.d > 0

\* Python truth value of an optional float argument
Truthy(x) == x # None /\ x.n # 0

RatAdd(x, y) ==
    IF IsFinite(x) /\ IsFinite(y)
    THEN LET g == GCD(x.d, y.d)
         IN  Rat(x.n * (y.d \div g) + y.n * (x.d \div g), (x.d \div g) * y.d)
    ELSE IF IsFinite(x) THEN y
    ELSE IF IsFinite(y) \/ x = y THEN x
    ELSE NaN

RatNeg(x) == [n |-> -x.n, d |-> x.d]

RatSub(x, y) == RatAdd(x, RatNeg(y))

RatMul(x, y) ==
    IF IsFinite(x) /\ IsFinite(y) THEN Rat(x.n * y.n, x.d * y.d)
    ELSE [n |-> Sign(x.n) * Sign(y.n), d |-> 0]

\* numpy float division: x/0 is inf or nan with a warning, never an exception
RatDiv(x, y) ==
    IF IsFinite(x) /\ IsFinite(y)
    THEN IF y.n = 0 THEN [n |-> Sign(x.n), d |-> 0]
         ELSE Rat(x.n * y.d * Sign(y.n), x.d * Abs(y.n))
    ELSE IF IsFinite(x) /\ y # NaN THEN Rat(0, 1)
    ELSE IF IsFinite(y) /\ x # NaN THEN [n |-> x.n * (IF y.n < 0 THEN -1 ELSE 1), d |-> 0]
    ELSE NaN

RatAbs(x) == [n |-> Abs(x.n), d |-> x.d]

\* x < y on floats; every comparison with NaN is false
RatLess(x, y) ==
    IF x = NaN \/ y = NaN THEN FALSE
    ELSE IF IsFinite(x) /\ IsFinite(y)
         THEN LET g == GCD(x.d, y.d) IN x.n * (y.d \div g) < y.n * (x.d \div g)
    ELSE IF IsFinite(x) THEN y.n > 0
    ELSE IF IsFinite(y) THEN x.n < 0
    ELSE x.n < y.n

RatInt(k) == [n |-> k, d |-> 1]

\* ceil and floor of a finite rational
RatCeil(x) == -((-x.n) \div x.d)

RatFloor(x) == x.n \div x.d

(***************************************************************************)
(* numpy array helpers.                                                    *)
(***************************************************************************)
\* a[mask]: the elements of a whose mask entry is true, in order
Take(a, mask) ==
    LET F[i \in 0..Len(a)] ==
            IF i = 0 THEN <<>>
            ELSE IF mask[i] THEN Append(F[i - 1], a[i]) ELSE F[i - 1]
    IN  F[Len(a)]

\* the array with the elements of f, each computed once
NpArray(f) == SubSeq(f, 1, Len(f))

SumSeq(a) ==
    LET F[i \in 0..Len(a)] == IF i = 0 THEN 0 ELSE F[i - 1] + a[i]
    IN  F[Len(a)]

MaxSeq(a) == CHOOSE x \in {a[i] : i \in 1..Len(a)} : \A i \in 1..Len(a) : a[i] <= x

MinSeq(a) == CHOOSE x \in {a[i] : i \in 1..Len(a)} : \A i \in 1..Len(a) : x <= a[i]

\* twice np.median of a non-empty integer array (the mean of the two middle
\* elements when the length is even)
Median2(a) ==
    LET s == SortSeq(a, LAMBDA x, y : x < y)
        k == Len(a)
    IN  IF k % 2 = 1 THEN 2 * s[(k + 1) \div 2] ELSE s[k \div 2] + s[k \div 2 + 1]

(***************************************************************************)
(* The caller's inputs.                                                    *)
(***************************************************************************)
\* one raw sample value: a finite integer or a non-finite float
Fin(v) == [fin |-> TRUE, v |-> v]

NonFin == [fin |-> FALSE, v |-> 0]

RawLens == (MaxSamples - 1)..MaxSamples

Patterns == {"saw", "mix", "flat", "outl"}

\* magnitude of the observation taken at time j
PatternMag(pat, j) ==
    CASE pat = "saw"  -> j % 2
      [] pat = "mix"  -> <<0, 3, 1, 4, 1, 5, 9, 2, 6, 5, 3, 5, 8>>[(j % 13) + 1]
      [] pat = "flat" -> IF j % 4 = 3 THEN 6 ELSE 5
      [] pat = "outl" -> IF j = 4 THEN 9 ELSE j % 2

\* the last nbad samples of a raw light curve carry one non-finite field each
BadField(n, nbad, i) ==
    IF i <= n - nbad THEN "none"
    ELSE CASE i % 3 = 0 -> "time" [] i % 3 = 1 -> "mag" [] OTHER -> "err"

RawTimes(n, nbad) ==
    [i \in 1..n |-> IF BadField(n, nbad, i) = "time" THEN NonFin ELSE Fin(i - 1)]

RawMags(n, nbad, pat) ==
    [i \in 1..n |-> IF BadField(n, nbad, i) = "mag" THEN NonFin
                    ELSE Fin(PatternMag(pat, i - 1))]

RawErrs(n, nbad) ==
    [i \in 1..n |-> IF BadField(n, nbad, i) = "err" THEN NonFin ELSE Fin(1)]

SigClips == {None, Rat(10, 1), Rat(1, 2)}

StartPs == {None, Rat(1, 1), Rat(3, 1)}

EndPs == {None, Rat(7, 2)}

StepSizes == {Rat(1, 4), Rat(10, 3)}

\* (phasebinsize, mindetperbin)
BinConfigs ==
    {<<Rat(1, 2), 2>>, <<Rat(1, 4), 2>>, <<Rat(1, 2), 9>>, <<Rat(0, 1), 9>>,
     <<Rat(-1, 2), 9>>}

NBestPeaks == 1..3

PeriodEpsilons == {Rat(1, 10), Rat(1, 1)}

NWorkers == {0, 1, NCPUS + 1}

(***************************************************************************)
(* State.                                                                  *)
(***************************************************************************)
VARIABLES
    calls,            \* invocations of stellingwerf_pdm so far
    pc,               \* position in stellingwerf_pdm
    times, mags, errs,            \* the caller's arrays
    ftimes, fmags, ferrs,         \* finite samples
    sigclip,
    stimes, smags, serrs,         \* sigma-clipped samples
    startp, endp, autofreq, stepsize,
    startf, endf, frequencies,
    nworkers,
    pools,            \* every Pool created so far, with its state
    phasebinsize, mindetperbin,
    nexttask,         \* pool.map: index of the next task no worker has taken
    running,          \* pool.map: tasks a worker is evaluating
    finished,         \* pool.map: tasks whose result has arrived
    caught,           \* tasks whose evaluation raised inside the worker
    mapresult,        \* pool.map: the result list being filled
    lsp, periods,
    finlsp, finperiods, bestperiodind,
    sortedlspperiods, sortedlspvals,
    nbestpeaks, periodepsilon,
    nbestperiods, nbestlspvals, peakcount, prevperiod,
    walkpos,          \* position of the for loop in the sorted pairs
    result,           \* the dict returned to the caller
    raised            \* the exception propagating to the caller

inputvars == <<times, mags, errs>>

cleanvars == <<ftimes, fmags, ferrs, sigclip, stimes, smags, serrs>>

gridvars == <<startp, endp, autofreq, stepsize, startf, endf, frequencies>>

poolvars == <<nworkers, pools, phasebinsize, mindetperbin, nexttask, running,
              finished, caught, mapresult, lsp, periods>>

peakvars == <<finlsp, finperiods, bestperiodind, sortedlspperiods, sortedlspvals,
              nbestpeaks, periodepsilon, nbestperiods, nbestlspvals, peakcount,
              prevperiod, walkpos>>

vars == <<calls, pc, inputvars, cleanvars, gridvars, poolvars, peakvars, result, raised>>

\* an array-valued field of the returned dict: a list or array, or None
Arr(a) == [none |-> FALSE, a |-> a]

NoneArr == [none |-> TRUE, a |-> <<>>]

\* the record both minimum-size guards return
NullResult(nbest) ==
    [bestperiod |-> NaN, bestlspval |-> NaN, nbestpeaks |-> nbest,
     nbestlspvals |-> NoneArr, nbestperiods |-> NoneArr,
     lspvals |-> NoneArr, periods |-> NoneArr, method |-> "pdm"]

\* nothing returned yet
NoResult ==
    [bestperiod |-> None, bestlspval |-> None, nbestpeaks |-> 0,
     nbestlspvals |-> NoneArr, nbestperiods |-> NoneArr,
     lspvals |-> NoneArr, periods |-> NoneArr, method |-> "none"]

Init ==
    /\ calls = 1
    /\ pc = "start"
    /\ \E n \in RawLens, nbad \in 0..MaxBad, pat \in Patterns :
          /\ times = RawTimes(n, nbad)
          /\ mags = RawMags(n, nbad, pat)
          /\ errs = RawErrs(n, nbad)
    /\ ftimes = <<>> /\ fmags = <<>> /\ ferrs = <<>>
    /\ sigclip = None
    /\ stimes = <<>> /\ smags = <<>> /\ serrs = <<>>
    /\ startp = None /\ endp = None /\ autofreq = FALSE /\ stepsize = None
    /\ startf = None /\ endf = None /\ frequencies = <<>>
    /\ nworkers = 0 /\ pools = <<>>
    /\ phasebinsize = None /\ mindetperbin = 0
    /\ nexttask = 0 /\ running = {} /\ finished = {} /\ caught = {}
    /\ mapresult = <<>> /\ lsp = <<>> /\ periods = <<>>
    /\ finlsp = <<>> /\ finperiods = <<>> /\ bestperiodind = 0
    /\ sortedlspperiods = <<>> /\ sortedlspvals = <<>>
    /\ nbestpeaks = 0 /\ periodepsilon = None
    /\ nbestperiods = <<>> /\ nbestlspvals = <<>> /\ peakcount = 0
    /\ prevperiod = None /\ walkpos = 0
    /\ result = NoResult
    /\ raised = "none"

(***************************************************************************)
(* stellingwerf_pdm: cleaning the light curve.                             *)
(***************************************************************************)
\* np.isfinite(times) & np.isfinite(mags) & np.isfinite(errs)
FiniteMask(t, m, e) == [i \in 1..Len(t) |-> t[i].fin /\ m[i].fin /\ e[i].fin]

Values(a) == [i \in 1..Len(a) |-> a[i].v]

\* faulty variant: the guard asks for more than ten points
EnoughPointsOverTen(t, m, e) == Len(t) > 10 /\ Len(m) > 10 /\ Len(e) > 10

\* the minimum-size guard applied to the three arrays
EnoughPoints(t, m, e) == Len(t) > 9 /\ Len(m) > 9 /\ Len(e) > 9

\* the return statement of a guard that failed; nbestpeaks is copied through
ReturnNull ==
    /\ pc' = "done"
    /\ \E nb \in NBestPeaks :
          /\ nbestpeaks' = nb
          /\ result' = NullResult(nb)

FiniteFilter ==
    /\ pc = "start"
    /\ LET find == FiniteMask(times, mags, errs)
           ft == Take(Values(times), find)
           fm == Take(Values(mags), find)
           fe == Take(Values(errs), find)
       IN  /\ ftimes' = ft /\ fmags' = fm /\ ferrs' = fe
           /\ IF EnoughPoints(ft, fm, fe)
              THEN pc' = "sigclip" /\ UNCHANGED <<result, nbestpeaks>>
              ELSE ReturnNull
    /\ UNCHANGED <<calls, inputvars, sigclip, stimes, smags, serrs, gridvars, poolvars,
                   finlsp, finperiods, bestperiodind, sortedlspperiods,
                   sortedlspvals, periodepsilon, nbestperiods, nbestlspvals,
                   peakcount, prevperiod, walkpos, raised>>

\* the factor between the median absolute deviation and the standard deviation
MadToStd == Rat(1483, 1000)

\* faulty variant: the comparison is <=, so a sample at the median is kept
SigClipMaskInclusive(fm, sc) ==
    LET median2 == Median2(fm)
        dev2 == [i \in 1..Len(fm) |-> Abs(2 * fm[i] - median2)]
        stddev_mag == RatMul(Rat(Median2(dev2), 4), MadToStd)
    IN  [i \in 1..Len(fm) |-> ~RatLess(RatMul(sc, stddev_mag), Rat(dev2[i], 2))]

\* sigind: |fmags - median_mag| < sigclip * stddev_mag
SigClipMask(fm, sc) ==
    LET median2 == Median2(fm)
        dev2 == [i \in 1..Len(fm) |-> Abs(2 * fm[i] - median2)]
        stddev_mag == RatMul(Rat(Median2(dev2), 4), MadToStd)
    IN  [i \in 1..Len(fm) |-> RatLess(Rat(dev2[i], 2), RatMul(sc, stddev_mag))]

SigClip ==
    /\ pc = "sigclip"
    /\ \E sc \in SigClips :
          /\ sigclip' = sc
          /\ LET sigind == IF Truthy(sc) THEN SigClipMask(fmags, sc)
                           ELSE [i \in 1..Len(fmags) |-> TRUE]
                 st == Take(ftimes, sigind)
                 sm == Take(fmags, sigind)
                 se == Take(ferrs, sigind)
             IN  /\ stimes' = st /\ smags' = sm /\ serrs' = se
                 /\ IF EnoughPoints(st, sm, se)
                    THEN pc' = "grid" /\ UNCHANGED <<result, nbestpeaks>>
                    ELSE ReturnNull
    /\ UNCHANGED <<calls, inputvars, ftimes, fmags, ferrs, gridvars, poolvars,
                   finlsp, finperiods, bestperiodind, sortedlspperiods,
                   sortedlspvals, periodepsilon, nbestperiods, nbestlspvals,
                   peakcount, prevperiod, walkpos, raised>>

(***************************************************************************)
(* stellingwerf_pdm: the frequency grid.                                   *)
(***************************************************************************)
\* number of elements of np.arange(start, stop, step), step > 0
ArangeLen(start, stop, step) ==
    LET k == RatCeil(RatDiv(RatSub(stop, start), step))
    IN  IF k > 0 THEN k ELSE 0

\* np.arange(start, stop, step)
Arange(start, stop, step) ==
    [k \in 1..ArangeLen(start, stop, step) |-> RatAdd(start, RatMul(RatInt(k - 1), step))]

\* frequency resolution of the automatic grid: five samples per peak of width
\* 1/baseline
AutoStep(t) == Rat(1, 5 * (MaxSeq(t) - MinSeq(t)))

\* get_frequency_grid(times, minfreq, maxfreq): strictly increasing, from minfreq,
\* below maxfreq
GetFrequencyGrid(t, minfreq, maxfreq) == Arange(minfreq, maxfreq, AutoStep(t))

\* endf, from startp or the default start period of 0.1
EndFreq(sp) ==
    IF Truthy(sp) THEN RatDiv(RatInt(1), sp) ELSE RatDiv(RatInt(1), Rat(1, 10))

\* startf, from endp or the default end period
StartFreq(ep, t) ==
    IF Truthy(ep) THEN RatDiv(RatInt(1), ep)
    ELSE RatDiv(RatInt(1), RatInt(MaxSeq(t) - MinSeq(t)))

FrequencyGrid ==
    /\ pc = "grid"
    /\ \E sp \in StartPs, ep \in EndPs, af \in BOOLEAN, ss \in StepSizes :
          LET ef == EndFreq(sp)
              sf == StartFreq(ep, stimes)
              step == IF af THEN AutoStep(stimes) ELSE ss
          IN  /\ ArangeLen(sf, ef, step) <= MaxGrid
              /\ startp' = sp /\ endp' = ep /\ autofreq' = af
              /\ stepsize' = IF af THEN None ELSE ss
              /\ startf' = sf /\ endf' = ef
              /\ frequencies' = IF af THEN GetFrequencyGrid(stimes, sf, ef)
                                ELSE Arange(sf, ef, ss)
              \* the log line of the automatic grid takes frequencies.max()
              /\ IF af /\ ArangeLen(sf, ef, step) = 0
                 THEN pc' = "raised" /\ raised' = "ValueError"
                 ELSE pc' = "pool" /\ UNCHANGED raised
    /\ UNCHANGED <<calls, inputvars, cleanvars, poolvars, peakvars, result>>

(***************************************************************************)
(* stellingwerf_pdm_theta.                                                 *)
(***************************************************************************)
\* np.var(a, ddof=1) of an integer array
Var1(a) ==
    LET n == Len(a)
        sq == [i \in 1..n |-> a[i] * a[i]]
    IN  Rat(n * SumSeq(sq) - SumSeq(a) * SumSeq(a), n * (n - 1))

\* phase_magseries: the phase of time t folded at period 1/frequency from epoch,
\* the fractional part of (t - epoch) / period, as a fraction over frequency.d
Phase(t, frequency, epoch) ==
    [n |-> ((t - epoch) * frequency.n) % frequency.d, d |-> frequency.d]

\* number of edges in np.arange(0.0, 1.0, binsize); none for a negative step
NumBins(binsize) ==
    IF binsize.n <= 0 THEN 0 ELSE ArangeLen(RatInt(0), RatInt(1), binsize)

\* np.digitize(phase, np.arange(0.0, 1.0, binsize)): the number of bin edges
\* that are <= phase, floor(phase / binsize) + 1 for a phase in [0, 1); an empty
\* bins array puts every phase in bin 0
Digitize(phase, binsize, nbins) ==
    IF nbins = 0 THEN 0
    ELSE LET k == (phase.n * binsize.d) \div (phase.d * binsize.n) + 1
         IN  IF k < nbins THEN k ELSE nbins

\* np.arange(0.0, 1.0, binsize) raises for a zero step
ThetaRaises(binsize) == binsize.n = 0

\* faulty variant: a bin with exactly minbin points is kept
GoodBinAtLeast(size, minbin) == size >= minbin

\* a bin is good when it holds more than minbin points
GoodBin(size, minbin) == size > minbin

stellingwerf_pdm_theta(t, m, e, frequency, binsize, minbin) ==
    LET fold_time == t[1]
        n == Len(t)
        nbins == NumBins(binsize)
        binnedphaseinds ==
            NpArray([i \in 1..n |-> Digitize(Phase(t[i], frequency, fold_time), binsize, nbins)])
        thisbin_mags(x) == Take(m, [i \in 1..n |-> binnedphaseinds[i] = x])
        \* per bin of np.unique(binnedphaseinds): its size and, for a good bin,
        \* binvariance * (binndet - 1)
        bin == NpArray([k \in 1..(nbins + 1) |->
                   LET bm == thisbin_mags(k - 1)
                   IN  IF GoodBin(Len(bm), minbin)
                       THEN [good |-> TRUE, ndet |-> Len(bm),
                             top |-> RatMul(Var1(bm), RatInt(Len(bm) - 1))]
                       ELSE [good |-> FALSE, ndet |-> 0, top |-> RatInt(0)]])
        top[k \in 0..(nbins + 1)] ==
            IF k = 0 THEN RatInt(0) ELSE RatAdd(top[k - 1], bin[k].top)
        ndets == SumSeq([k \in 1..(nbins + 1) |-> bin[k].ndet])
        goodbins == Cardinality({k \in 1..(nbins + 1) : bin[k].good})
        theta_top == RatDiv(top[nbins + 1], RatInt(ndets - goodbins))
        theta_bot == Var1(m)
    IN  RatDiv(theta_top, theta_bot)

(***************************************************************************)
(* stellingwerf_pdm_worker and the pool.                                   *)
(***************************************************************************)
\* the task of grid point i
Task(i) ==
    [times |-> stimes, mags |-> smags, errs |-> serrs, frequency |-> frequencies[i],
     binsize |-> phasebinsize, minbin |-> mindetperbin]

\* faulty variant: the except clause returns 0.0
WorkerReturnsZero(task, fault) ==
    IF fault \/ ThetaRaises(task.binsize) THEN RatInt(0)
    ELSE stellingwerf_pdm_theta(task.times, task.mags, task.errs, task.frequency,
                                task.binsize, task.minbin)

\* the value the worker returns for a task; fault: the evaluation raises for a
\* reason outside the model
stellingwerf_pdm_worker(task, fault) ==
    IF fault \/ ThetaRaises(task.binsize) THEN NaN
    ELSE stellingwerf_pdm_theta(task.times, task.mags, task.errs, task.frequency,
                                task.binsize, task.minbin)

\* Pool(nworkers) after the cap at NCPUS
PoolSize(nw) == IF nw = 0 \/ nw > NCPUS THEN NCPUS ELSE nw

CreatePool ==
    /\ pc = "pool"
    /\ \E nw \in NWorkers :
          /\ nworkers' = PoolSize(nw)
          /\ pools' = Append(pools, [state |-> "run", call |-> calls])
    /\ pc' = "tasks"
    /\ UNCHANGED <<calls, inputvars, cleanvars, gridvars, phasebinsize, mindetperbin, nexttask,
                   running, finished, caught, mapresult, lsp, periods, peakvars,
                   result, raised>>

\* the tasks list is built and handed to pool.map
StartMap ==
    /\ pc = "tasks"
    /\ \E cfg \in BinConfigs :
          /\ phasebinsize' = cfg[1]
          /\ mindetperbin' = cfg[2]
    /\ nexttask' = 1
    /\ running' = {} /\ finished' = {} /\ caught' = {}
    /\ mapresult' = [i \in 1..Len(frequencies) |-> None]
    /\ pc' = "map"
    /\ UNCHANGED <<calls, inputvars, cleanvars, gridvars, nworkers, pools, lsp, periods,
                   peakvars, result, raised>>

\* an idle worker process takes the next task off the queue
WorkerTake ==
    /\ pc = "map"
    /\ nexttask <= Len(frequencies)
    /\ Cardinality(running) < nworkers
    /\ running' = running \cup {nexttask}
    /\ nexttask' = nexttask + 1
    /\ UNCHANGED <<calls, pc, inputvars, cleanvars, gridvars, nworkers, pools, phasebinsize,
                   mindetperbin, finished, caught, mapresult, lsp, periods, peakvars,
                   result, raised>>

\* faulty variant: the results are kept in the order in which they arrive
StoreInArrivalOrder(res, i, v) ==
    [res EXCEPT ![CHOOSE k \in 1..Len(res) :
                     res[k] = None /\ \A j \in 1..(k - 1) : res[j] # None] = v]

\* pool.map puts the value of task i into the result list
StoreResult(res, i, v) == [res EXCEPT ![i] = v]

\* a worker returns the theta of its task
WorkerReturn(i) ==
    /\ pc = "map"
    /\ i \in running
    /\ ~ThetaRaises(phasebinsize)
    /\ running' = running \ {i}
    /\ finished' = finished \cup {i}
    /\ mapresult' = StoreResult(mapresult, i, stellingwerf_pdm_worker(Task(i), FALSE))
    /\ UNCHANGED <<calls, pc, inputvars, cleanvars, gridvars, nworkers, pools, phasebinsize,
                   mindetperbin, nexttask, caught, lsp, periods, peakvars, result, raised>>

\* the tasks that raised although the configuration does not make theta raise
Faults == IF ThetaRaises(phasebinsize) THEN {} ELSE caught

\* the evaluation raises and the worker's except clause returns
WorkerExcept(i) ==
    /\ pc = "map"
    /\ i \in running
    /\ ThetaRaises(phasebinsize) \/ Cardinality(Faults) < MaxFaults
    /\ running' = running \ {i}
    /\ finished' = finished \cup {i}
    /\ caught' = caught \cup {i}
    /\ mapresult' = StoreResult(mapresult, i, stellingwerf_pdm_worker(Task(i), TRUE))
    /\ UNCHANGED <<calls, pc, inputvars, cleanvars, gridvars, nworkers, pools, phasebinsize,
                   mindetperbin, nexttask, lsp, periods, peakvars, result, raised>>

\* pool.map returns once every task has a result
MapReturn ==
    /\ pc = "map"
    /\ finished = 1..Len(frequencies)
    /\ lsp' = mapresult
    /\ pc' = "close"
    /\ UNCHANGED <<calls, inputvars, cleanvars, gridvars, nworkers, pools, phasebinsize,
                   mindetperbin, nexttask, running, finished, caught, mapresult,
                   periods, peakvars, result, raised>>

\* faulty variant: the pool is neither closed nor joined
PoolLeftRunning(p) == p

\* state of a pool after pool.close() and pool.join()
ClosedJoined(p) == [p EXCEPT !.state = "joined"]

ClosePool ==
    /\ pc = "close"
    /\ pools' = [pools EXCEPT ![Len(pools)] = ClosedJoined(@)]
    /\ periods' = [i \in 1..Len(frequencies) |-> RatDiv(RatInt(1), frequencies[i])]
    /\ pc' = "peaks"
    /\ UNCHANGED <<calls, inputvars, cleanvars, gridvars, nworkers, phasebinsize, mindetperbin,
                   nexttask, running, finished, caught, mapresult, lsp, peakvars,
                   result, raised>>

(***************************************************************************)
(* stellingwerf_pdm: peak selection.                                       *)
(***************************************************************************)
\* faulty variant: np.argmax, the best peak of a periodogram whose peaks are maxima
NpArgmaxInstead(a) ==
    CHOOSE i \in 1..Len(a) :
        /\ \A j \in 1..Len(a) : ~RatLess(a[i], a[j])
        /\ \A j \in 1..(i - 1) : RatLess(a[j], a[i])

\* np.argmin of a non-empty array of finite floats: the first index of the minimum
NpArgmin(a) ==
    CHOOSE i \in 1..Len(a) :
        /\ \A j \in 1..Len(a) : ~RatLess(a[j], a[i])
        /\ \A j \in 1..(i - 1) : RatLess(a[i], a[j])

\* faulty variant: the sort is descending, worst theta first
NpArgsortDescending(a) ==
    {p \in Permutations(1..Len(a)) :
        \A i \in 1..(Len(a) - 1) : ~RatLess(a[p[i]], a[p[i + 1]])}

\* the index arrays np.argsort may return: ascending, equal values in any order
NpArgsort(a) ==
    {p \in Permutations(1..Len(a)) :
        \A i \in 1..(Len(a) - 1) : ~RatLess(a[p[i + 1]], a[p[i]])}

\* faulty variant: the test compares with the accepted periods alone
AcceptPeakAcceptedOnly(period, prev, accepted, eps) ==
    \A k \in 1..Len(accepted) : RatLess(eps, RatAbs(RatSub(period, accepted[k])))

\* faulty variant: the test compares with the previous candidate alone
AcceptPeakPrevOnly(period, prev, accepted, eps) ==
    RatLess(eps, RatAbs(RatSub(period, prev)))

\* the test of the walk: the period differs from the previous candidate and from
\* every accepted period by more than periodepsilon
AcceptPeak(period, prev, accepted, eps) ==
    /\ RatLess(eps, RatAbs(RatSub(period, prev)))
    /\ \A k \in 1..Len(accepted) : RatLess(eps, RatAbs(RatSub(period, accepted[k])))

\* faulty variant: the loop has no break
WalkOverNoBreak(count, nbest, pos, len) == pos > len

\* the loop stops at the break or at the end of the sorted pairs
WalkOver(count, nbest, pos, len) == count = nbest \/ pos > len

PeakInit ==
    /\ pc = "peaks"
    /\ LET finitepeakind == [i \in 1..Len(lsp) |-> IsFinite(lsp[i])]
           fl == Take(lsp, finitepeakind)
           fp == Take(periods, finitepeakind)
       IN  /\ finlsp' = fl
           /\ finperiods' = fp
           /\ IF Len(fl) = 0
              THEN \* np.argmin raises for an empty sequence
                   /\ pc' = "raised"
                   /\ raised' = "ValueError"
                   /\ UNCHANGED <<bestperiodind, sortedlspperiods, sortedlspvals,
                                  nbestpeaks, periodepsilon, nbestperiods, nbestlspvals,
                                  peakcount, prevperiod, walkpos>>
              ELSE /\ bestperiodind' = NpArgmin(fl)
                   /\ \E sortedlspind \in NpArgsort(fl) :
                         /\ sortedlspperiods' = [i \in 1..Len(fl) |-> fp[sortedlspind[i]]]
                         /\ sortedlspvals' = [i \in 1..Len(fl) |-> fl[sortedlspind[i]]]
                         /\ prevperiod' = fp[sortedlspind[1]]
                   /\ nbestperiods' = <<fp[NpArgmin(fl)]>>
                   /\ nbestlspvals' = <<fl[NpArgmin(fl)]>>
                   /\ peakcount' = 1
                   /\ walkpos' = 1
                   /\ \E nb \in NBestPeaks, eps \in PeriodEpsilons :
                         /\ nbestpeaks' = nb
                         /\ periodepsilon' = eps
                   /\ pc' = "walk"
                   /\ UNCHANGED raised
    /\ UNCHANGED <<calls, inputvars, cleanvars, gridvars, poolvars, result>>

\* one iteration of the for loop over the sorted (period, lspval) pairs
WalkStep ==
    /\ pc = "walk"
    /\ ~WalkOver(peakcount, nbestpeaks, walkpos, Len(sortedlspperiods))
    /\ LET period == sortedlspperiods[walkpos]
           lspval == sortedlspvals[walkpos]
       IN  /\ IF AcceptPeak(period, prevperiod, nbestperiods, periodepsilon)
              THEN /\ nbestperiods' = Append(nbestperiods, period)
                   /\ nbestlspvals' = Append(nbestlspvals, lspval)
                   /\ peakcount' = peakcount + 1
              ELSE UNCHANGED <<nbestperiods, nbestlspvals, peakcount>>
           /\ prevperiod' = period
    /\ walkpos' = walkpos + 1
    /\ UNCHANGED <<calls, pc, inputvars, cleanvars, gridvars, poolvars, finlsp, finperiods,
                   bestperiodind, sortedlspperiods, sortedlspvals, nbestpeaks,
                   periodepsilon, result, raised>>

Return ==
    /\ pc = "walk"
    /\ WalkOver(peakcount, nbestpeaks, walkpos, Len(sortedlspperiods))
    /\ result' = [bestperiod |-> finperiods[bestperiodind],
                  bestlspval |-> finlsp[bestperiodind],
                  nbestpeaks |-> nbestpeaks,
                  nbestlspvals |-> Arr(nbestlspvals),
                  nbestperiods |-> Arr(nbestperiods),
                  lspvals |-> Arr(lsp),
                  periods |-> Arr(periods),
                  method |-> "pdm"]
    /\ pc' = "done"
    /\ UNCHANGED <<calls, inputvars, cleanvars, gridvars, poolvars, peakvars, raised>>

\* the light curve of a later invocation
LaterLen == MaxSamples - 1

LaterPattern == "mix"

\* the caller, holding a result or an exception, calls stellingwerf_pdm again; the
\* locals of the returned call are gone
Reinvoke ==
    /\ pc \in {"done", "raised"}
    /\ calls < MaxCalls
    /\ calls' = calls + 1
    /\ pc' = "start"
    /\ times' = RawTimes(LaterLen, 0)
    /\ mags' = RawMags(LaterLen, 0, LaterPattern)
    /\ errs' = RawErrs(LaterLen, 0)
    /\ ftimes' = <<>> /\ fmags' = <<>> /\ ferrs' = <<>>
    /\ sigclip' = None
    /\ stimes' = <<>> /\ smags' = <<>> /\ serrs' = <<>>
    /\ startp' = None /\ endp' = None /\ autofreq' = FALSE /\ stepsize' = None
    /\ startf' = None /\ endf' = None /\ frequencies' = <<>>
    /\ nworkers' = 0
    /\ phasebinsize' = None /\ mindetperbin' = 0
    /\ nexttask' = 0 /\ running' = {} /\ finished' = {} /\ caught' = {}
    /\ mapresult' = <<>> /\ lsp' = <<>> /\ periods' = <<>>
    /\ finlsp' = <<>> /\ finperiods' = <<>> /\ bestperiodind' = 0
    /\ sortedlspperiods' = <<>> /\ sortedlspvals' = <<>>
    /\ nbestpeaks' = 0 /\ periodepsilon' = None
    /\ nbestperiods' = <<>> /\ nbestlspvals' = <<>> /\ peakcount' = 0
    /\ prevperiod' = None /\ walkpos' = 0
    /\ result' = NoResult
    /\ raised' = "none"
    /\ UNCHANGED pools

Next ==
    \/ FiniteFilter
    \/ SigClip
    \/ FrequencyGrid
    \/ CreatePool
    \/ StartMap
    \/ WorkerTake
    \/ \E i \in 1..MaxGrid : WorkerReturn(i)
    \/ \E i \in 1..MaxGrid : WorkerExcept(i)
    \/ MapReturn
    \/ ClosePool
    \/ PeakInit
    \/ WalkStep
    \/ Return
    \/ Reinvoke

Spec == Init /\ [][Next]_vars

(***************************************************************************)
(* Vocabulary of the properties.                                           *)
(***************************************************************************)
Min(a, b) == IF a < b THEN a ELSE b

\* the record of an insufficient light curve
IsNull(r) ==
    /\ r.method = "pdm"
    /\ r.bestperiod = NaN /\ r.bestlspval = NaN
    /\ r.nbestperiods = NoneArr /\ r.nbestlspvals = NoneArr
    /\ r.lspvals = NoneArr /\ r.periods = NoneArr

\* the call has returned a record with a spectrum
ReturnedSpectrum == pc = "done" /\ ~IsNull(result)

\* samples of the caller's arrays with time, magnitude and error all finite
RawFinite == Cardinality({i \in 1..Len(times) : times[i].fin /\ mags[i].fin /\ errs[i].fin})

\* grid points of the returned spectrum with a finite theta
FiniteThetas == {i \in 1..Len(result.lspvals.a) : IsFinite(result.lspvals.a[i])}

\* the configuration read so far is structurally valid
ValidConfig == phasebinsize = None \/ phasebinsize.n > 0

\* the value of the evaluator for grid point i, computed from the cleaned series
ThetaOf(i) ==
    stellingwerf_pdm_theta(stimes, smags, serrs, frequencies[i], phasebinsize, mindetperbin)

\* |x - y| > eps
FartherThan(x, y, eps) == RatLess(eps, RatAbs(RatSub(x, y)))

\* pool.map has returned in this invocation
MapReturned == pc \in {"close", "peaks", "walk"} \/ (pc \in {"done", "raised"} /\ Len(lsp) = Len(frequencies) /\ phasebinsize # None)

(***************************************************************************)
(* C1: with at least 10 finite samples, at least 10 samples surviving the  *)
(* sigma clip and a valid configuration, stellingwerf_pdm returns a record *)
(* and never raises; when no theta is finite the record it returns has a   *)
(* non-finite bestperiod.                                                  *)
(***************************************************************************)
C1_NeverRaises ==
    /\ (pc = "raised" => ~(RawFinite >= 10 /\ Len(stimes) >= 10 /\ ValidConfig))
    /\ (pc = "done" /\ MapReturned /\ (\A i \in 1..Len(lsp) : ~IsFinite(lsp[i]))
            => ~IsFinite(result.bestperiod))

(***************************************************************************)
(* C2: with fewer than 10 finite samples, or fewer than 10 samples left by *)
(* the sigma clip, the call returns the null record (bestperiod and        *)
(* bestlspval NaN, the four arrays None, method 'pdm') without creating a  *)
(* pool or evaluating a task; with 10 or more surviving samples the null   *)
(* record is never returned.                                               *)
(***************************************************************************)
ClippedCount ==
    LET sigind == IF Truthy(sigclip) THEN SigClipMask(fmags, sigclip)
                  ELSE [i \in 1..Len(fmags) |-> TRUE]
    IN  Len(Take(fmags, sigind))

Insufficient ==
    \/ RawFinite < 10
    \/ pc \notin {"start", "sigclip"} /\ ClippedCount < 10

C2_NullRecord ==
    /\ (pc # "start" /\ Insufficient) =>
          /\ pc = "done" /\ raised = "none"
          /\ IsNull(result)
          /\ \A p \in 1..Len(pools) : pools[p].call # calls
          /\ running = {} /\ finished = {} /\ mapresult = <<>>
    /\ (pc = "done" /\ IsNull(result)) => Insufficient

\* ten finite samples, and the sigma clip leaves fewer than ten
C2_Witness ==
    /\ pc = "done" /\ IsNull(result)
    /\ RawFinite >= 10 /\ Truthy(sigclip) /\ Len(stimes) < 10 /\ Len(stimes) > 0

C4_PeaksSeparated ==
    (pc = "walk" \/ ReturnedSpectrum) =>
        \A i, j \in 1..Len(nbestperiods) :
            i # j => FartherThan(nbestperiods[i], nbestperiods[j], periodepsilon)

\* three peaks accepted, one of them a candidate that followed a rejected one
C4_Witness ==
    /\ ReturnedSpectrum
    /\ Len(result.nbestperiods.a) = 3
    /\ walkpos > 4

(***************************************************************************)
(* C5: in every non-null result bestperiod is the period of a grid point   *)
(* whose theta is finite and minimal among the finite thetas, bestlspval   *)
(* is that theta, entry 0 of nbestperiods and nbestlspvals are bestperiod  *)
(* and bestlspval, and no grid point with a non-finite theta is reported   *)
(* as bestperiod or in nbestperiods.                                       *)
(***************************************************************************)
C5_BestIsGlobalMinimum ==
    ReturnedSpectrum =>
        LET th == result.lspvals.a
            pr == result.periods.a
        IN  /\ \E i \in FiniteThetas :
                  /\ pr[i] = result.bestperiod
                  /\ th[i] = result.bestlspval
                  /\ \A j \in FiniteThetas : ~RatLess(th[j], th[i])
            /\ result.nbestperiods.a[1] = result.bestperiod
            /\ result.nbestlspvals.a[1] = result.bestlspval
            /\ \A k \in 1..Len(result.nbestperiods.a) :
                  \E i \in FiniteThetas : pr[i] = result.nbestperiods.a[k]

\* a spectrum with a non-finite entry, whose minimum is not at the first finite
\* grid point and is not what the sort put first
C5_Witness ==
    /\ ReturnedSpectrum
    /\ Cardinality(FiniteThetas) < Len(lsp)
    /\ bestperiodind > 1
    /\ sortedlspperiods[1] # result.bestperiod

(***************************************************************************)
(* C6: whatever the order in which the workers take and finish the tasks,  *)
(* the spectrum has one period and one theta per grid frequency, in grid   *)
(* order: periods[i] = 1/frequencies[i] and lspvals[i] is the value for    *)
(* frequencies[i]; so it depends on the light curve and the configuration  *)
(* alone, not on the scheduling or the number of workers.                  *)
(***************************************************************************)
C6_AtMapReturn ==
    /\ pc = "close" =>
          /\ Len(lsp) = Len(frequencies)
          /\ \A i \in 1..Len(lsp) : lsp[i] = IF i \in caught THEN NaN ELSE ThetaOf(i)
    /\ ReturnedSpectrum =>
          /\ result.lspvals.a = lsp
          /\ Len(result.periods.a) = Len(frequencies)
          /\ \A i \in 1..Len(frequencies) :
                RatMul(result.periods.a[i], frequencies[i]) = RatInt(1)

\* between the return of pool.map and the return of the search nothing changes
\* the spectrum, the grid or the cleaned series
C6_SpectrumKept ==
    pc \in {"close", "peaks", "walk"} =>
        UNCHANGED <<lsp, frequencies, stimes, smags, serrs, phasebinsize, mindetperbin,
                    caught>>

C6_GridOrder == []C6_AtMapReturn /\ [][C6_SpectrumKept]_vars

\* two workers, and a later task finished while an earlier one was still running
C6_Witness ==
    /\ pc = "map"
    /\ nworkers = 2
    /\ \E i \in running : \E j \in finished : j > i /\ IsFinite(mapresult[j])

(***************************************************************************)
(* C7: when the evaluation of one task raises, the worker returns NaN for  *)
(* that task and nothing else changes: every other task is evaluated and   *)
(* has the value it has without the failure, the pool keeps working, and   *)
(* peak selection runs over the finite entries that remain.                *)
(***************************************************************************)
C7_FailureIsolated ==
    /\ pc = "map" /\ caught # {} =>
          /\ \A i \in finished : mapresult[i] = IF i \in caught THEN NaN ELSE ThetaOf(i)
          /\ pools[Len(pools)].state = "run"
          /\ finished # 1..Len(frequencies) => (running # {} \/ nexttask <= Len(frequencies))
          /\ raised = "none"
    /\ pc \in {"walk", "done"} /\ MapReturned /\ caught # {} =>
          /\ \A i \in caught : lsp[i] = NaN
          /\ Len(finlsp) = Cardinality({i \in 1..Len(lsp) : IsFinite(lsp[i])})
          /\ \A i \in 1..Len(lsp) :
                IsFinite(lsp[i]) =>
                    \E k \in 1..Len(finlsp) : finlsp[k] = lsp[i] /\ finperiods[k] = periods[i]

\* one task raised, the others have their finite values and a result is returned
C7_Witness ==
    /\ ReturnedSpectrum
    /\ Cardinality(caught) = 1
    /\ Len(finlsp) >= 2
    /\ Len(result.nbestperiods.a) >= 2

(***************************************************************************)
(* C8: a structurally invalid configuration, such as a phasebinsize that   *)
(* is not positive, reaches the caller as a hard failure: no worker        *)
(* absorbs it into a NaN theta and the call returns no normal result.      *)
(***************************************************************************)
C8_ConfigErrorPropagates ==
    ~ValidConfig =>
        /\ caught = {}
        /\ ~ReturnedSpectrum

(***************************************************************************)
(* C9: whenever control is back with the caller, by return or by           *)
(* exception, every pool that was created has been closed and joined; a    *)
(* running pool belongs to the invocation in progress, which has no other, *)
(* and the tasks of an invocation run on the pool that invocation created. *)
(***************************************************************************)
C9_PoolScoped ==
    /\ \A p \in 1..Len(pools) :
          \/ pools[p].state = "joined"
          \/ p = Len(pools) /\ pools[p].call = calls /\ pc \in {"tasks", "map", "close"}
    /\ \A p, q \in 1..Len(pools) : p # q => pools[p].call # pools[q].call
    /\ pc \in {"tasks", "map", "close"} =>
          /\ Len(pools) >= 1
          /\ pools[Len(pools)] = [state |-> "run", call |-> calls]

\* a later invocation left by an exception after its own pool absorbed a failure
C9_Witness ==
    /\ calls = 2 /\ Len(pools) = 2
    /\ pc = "raised"
    /\ caught # {}

(***************************************************************************)
(* C10: without endp the grid starts at startf = 2 / (max(time) -          *)
(* min(time)) of the cleaned series, so the longest trial period is half   *)
(* the baseline; without startp endf is 10, a shortest period of 0.1.      *)
(***************************************************************************)
C10_DefaultBounds ==
    startf # None =>
        /\ ~Truthy(endp) =>
              RatMul(startf, RatInt(MaxSeq(stimes) - MinSeq(stimes))) = RatInt(2)
        /\ ~Truthy(startp) => endf = RatInt(10)

(***************************************************************************)
(* C11: in every non-null result nbestperiods and nbestlspvals have the    *)
(* same length, nbestlspvals[k] is the theta of the one grid point whose   *)
(* period is nbestperiods[k], and the entries run from best to worst:      *)
(* nbestlspvals[i] <= nbestlspvals[j] whenever i < j.                      *)
(***************************************************************************)
C11_PeaksMatchedAndOrdered ==
    ReturnedSpectrum =>
        LET th == result.lspvals.a
            pr == result.periods.a
            np == result.nbestperiods.a
            nl == result.nbestlspvals.a
        IN  /\ Len(np) = Len(nl)
            /\ \A k \in 1..Len(np) :
                  /\ \E i \in 1..Len(pr) : pr[i] = np[k]
                  /\ \A i \in 1..Len(pr) : pr[i] = np[k] => th[i] = nl[k]
            /\ \A i, j \in 1..Len(nl) : i < j => ~RatLess(nl[j], nl[i])

\* three peaks with three different thetas, from a spectrum of four finite values
C11_Witness ==
    /\ ReturnedSpectrum
    /\ Len(result.nbestlspvals.a) = 3
    /\ RatLess(result.nbestlspvals.a[1], result.nbestlspvals.a[2])
    /\ RatLess(result.nbestlspvals.a[2], result.nbestlspvals.a[3])
    /\ Cardinality(FiniteThetas) = 4

(***************************************************************************)
(* C12: the walk over the finite (period, theta) pairs in ascending-theta  *)
(* order appends a candidate if and only if fewer than nbestpeaks peaks    *)
(* are accepted so far and its distance to prevperiod and to every         *)
(* accepted period exceeds periodepsilon; prevperiod starts as the first   *)
(* sorted period and becomes the candidate after every iteration, accepted *)
(* or not, so a candidate far from every accepted peak is still rejected   *)
(* when it is within periodepsilon of the candidate before it.             *)
(***************************************************************************)
C12_WalkStarts ==
    (pc = "peaks" /\ pc' = "walk") =>
        /\ prevperiod' = sortedlspperiods'[1]
        /\ \A i \in 1..(Len(sortedlspvals') - 1) :
              ~RatLess(sortedlspvals'[i + 1], sortedlspvals'[i])
        /\ Len(sortedlspperiods') = Cardinality({i \in 1..Len(lsp) : IsFinite(lsp[i])})
        /\ \A k \in 1..Len(sortedlspperiods') :
              \E i \in 1..Len(lsp) :
                  /\ IsFinite(lsp[i])
                  /\ periods[i] = sortedlspperiods'[k] /\ lsp[i] = sortedlspvals'[k]

C12_Iteration ==
    (pc = "walk" /\ pc' = "walk") =>
        LET candidate == sortedlspperiods[walkpos]
            accepts ==
                /\ Len(nbestperiods) < nbestpeaks
                /\ FartherThan(candidate, prevperiod, periodepsilon)
                /\ \A k \in 1..Len(nbestperiods) :
                      FartherThan(candidate, nbestperiods[k], periodepsilon)
        IN  /\ walkpos <= Len(sortedlspperiods)
            /\ walkpos' = walkpos + 1
            /\ prevperiod' = candidate
            /\ IF accepts
               THEN /\ nbestperiods' = Append(nbestperiods, candidate)
                    /\ nbestlspvals' = Append(nbestlspvals, sortedlspvals[walkpos])
               ELSE UNCHANGED <<nbestperiods, nbestlspvals>>

C12_WalkEnds ==
    (pc = "walk" /\ pc' = "done") =>
        /\ UNCHANGED <<nbestperiods, nbestlspvals>>
        /\ walkpos <= Len(sortedlspperiods) => Len(nbestperiods) = nbestpeaks

C12_WalkRule == [][C12_WalkStarts /\ C12_Iteration /\ C12_WalkEnds]_vars

\* the candidate just examined, not the first, is farther than periodepsilon from
\* every accepted period and was rejected for being within periodepsilon of the
\* candidate before it, itself rejected
C12_Witness ==
    /\ pc = "walk" /\ walkpos >= 3
    /\ ValidConfig
    /\ Len(nbestperiods) < nbestpeaks
    /\ \A k \in 1..Len(nbestperiods) :
          FartherThan(sortedlspperiods[walkpos - 1], nbestperiods[k], periodepsilon)
    /\ ~FartherThan(sortedlspperiods[walkpos - 1], sortedlspperiods[walkpos - 2],
                    periodepsilon)

(***************************************************************************)
(* C13: in stellingwerf_pdm_theta a phase bin contributes to the pooled    *)
(* within-bin variance and to goodbins if and only if it holds strictly    *)
(* more than minbin folded points; the pooled denominator is the sum of    *)
(* the sizes of the contributing bins minus their number; when no bin      *)
(* contributes the theta is not finite.  Stated on the values pool.map     *)
(* returned: theta is the sum over the contributing bins of the squared    *)
(* deviations from the bin mean, over that denominator, over the variance  *)
(* of all magnitudes.                                                      *)
(***************************************************************************)
\* the samples folded at grid frequency i into phase bin b
BinMembers(i, b) ==
    {j \in 1..Len(stimes) :
        Digitize(Phase(stimes[j], frequencies[i], stimes[1]), phasebinsize,
                 NumBins(phasebinsize)) = b}

RECURSIVE SumMags(_, _)
\* the sum of the magnitudes (power 1) or of their squares (power 2) over samples S
SumMags(S, power) ==
    IF S = {} THEN 0
    ELSE LET j == CHOOSE k \in S : TRUE
         IN  (IF power = 2 THEN smags[j] * smags[j] ELSE smags[j]) + SumMags(S \ {j}, power)

\* the sum over samples S of the squared deviation from their mean
SquaredDeviations(S) ==
    LET n == Cardinality(S)
    IN  Rat(n * SumMags(S, 2) - SumMags(S, 1) * SumMags(S, 1), n)

\* the bins of grid frequency i that hold strictly more than minbin samples
ContributingBins(i) ==
    {b \in 0..NumBins(phasebinsize) : Cardinality(BinMembers(i, b)) > mindetperbin}

RECURSIVE PooledDeviations(_, _)
PooledDeviations(i, B) ==
    IF B = {} THEN RatInt(0)
    ELSE LET b == CHOOSE c \in B : TRUE
         IN  RatAdd(SquaredDeviations(BinMembers(i, b)), PooledDeviations(i, B \ {b}))

RECURSIVE PooledCount(_, _)
PooledCount(i, B) ==
    IF B = {} THEN 0
    ELSE LET b == CHOOSE c \in B : TRUE
         IN  Cardinality(BinMembers(i, b)) + PooledCount(i, B \ {b})

C13_PooledVariance ==
    pc = "close" =>
        \A i \in 1..Len(lsp) :
            i \notin caught =>
                LET B == ContributingBins(i)
                    all == 1..Len(stimes)
                IN  IF B = {} THEN ~IsFinite(lsp[i])
                    ELSE lsp[i] =
                           RatDiv(RatDiv(PooledDeviations(i, B),
                                         RatInt(PooledCount(i, B) - Cardinality(B))),
                                  RatDiv(SquaredDeviations(all),
                                         RatInt(Cardinality(all) - 1)))

\* a grid frequency with a bin of exactly minbin samples, left out, next to a
\* contributing bin, and a finite theta
C13_Witness ==
    /\ pc = "close"
    /\ \E i \in 1..Len(lsp) :
          /\ i \notin caught
          /\ IsFinite(lsp[i])
          /\ ContributingBins(i) # {}
          /\ \E b \in 0..NumBins(phasebinsize) :
                Cardinality(BinMembers(i, b)) = mindetperbin

(***************************************************************************)
(* C14: the sigma clip keeps a sample only when |mag - median| is strictly *)
(* less than sigclip times the scale, so when the median absolute          *)
(* deviation of 10 or more finite magnitudes is zero an enabled sigclip    *)
(* removes every sample and the call returns the null record; with sigclip *)
(* disabled the same series keeps every sample and goes on to the grid     *)
(* search.                                                                 *)
(***************************************************************************)
\* the median of |fmags - median(fmags)| is zero
MadIsZero ==
    Median2([i \in 1..Len(fmags) |-> Abs(2 * fmags[i] - Median2(fmags))]) = 0

C14_ZeroScaleClipsAll ==
    (pc \notin {"start", "sigclip"} /\ Len(fmags) >= 10 /\ MadIsZero) =>
        IF Truthy(sigclip)
        THEN /\ stimes = <<>> /\ smags = <<>> /\ serrs = <<>>
             /\ pc = "done" /\ IsNull(result)
             /\ frequencies = <<>>
        ELSE /\ stimes = ftimes /\ smags = fmags /\ serrs = ferrs
             /\ ~(pc = "done" /\ IsNull(result))
             /\ pc # "grid" => Len(frequencies) >= 1

\* eleven finite samples, eight of them at the median, clipped to nothing
C14_Witness ==
    /\ pc = "done" /\ IsNull(result)
    /\ Len(fmags) = 11 /\ MadIsZero
    /\ Cardinality({i \in 1..Len(fmags) : 2 * fmags[i] # Median2(fmags)}) >= 2
    /\ Truthy(sigclip) /\ stimes = <<>>

====
